---- MODULE Spec2Model ----
(***************************************************************************)
(* Model of split_episodes.py: the episode-boundary inference of the       *)
(* interactive MKV episode splitter.                                       *)
(*                                                                         *)
(* Time is counted in ticks of 12 seconds (TicksPerMinute ticks to the     *)
(* minute), so that every duration of the model is an integer. A target    *)
(* duration is a rational [n, d] (n/d ticks, d > 0), because the program   *)
(* divides the total runtime by an episode count; a tolerance is a         *)
(* rational too. Every comparison the program makes on floats is made      *)
(* here on the exact values, cross-multiplied.                             *)
(*                                                                         *)
(* A chapter is [index, start_time, end_time] (its name plays no part in   *)
(* any decision), an episode is [number, chapters], a file is              *)
(* [chapters, total_duration, episodes, skip] and is identified by its     *)
(* position in the scan order.                                             *)
(***************************************************************************)
EXTENDS Integers, Sequences, FiniteSets, TLC

VARIABLES
    files,            \* main: the list of MkvFile, in scan order
    pc,               \* main / interactive_review: where the run stands; "review"
                      \* is the prompt of the review loop, "display" the way
                      \* back to it after a command
    method,           \* main: the detection method that was applied last
    plan_target,      \* the target duration the detection segmented with
    target_duration,  \* main: the target duration handed to the review
    cmd,              \* what was read last
    msg,              \* what was printed last
    seg,              \* split_by_duration_target: the locals of its loop
    requests,         \* process_file: what was asked of the MKV tools and of
                      \* the file system, in order
    results,          \* process_files: the outcome of every file it attempted
    scan              \* scan_directory: the paths still to analyze and the
                      \* number of files left out so far

vars == <<files, pc, method, plan_target, target_duration, cmd, msg, seg,
          requests, results, scan>>

----------------------------------------------------------------------------
(* Bounds of the model and constants of the program *)

TicksPerMinute == 5

\* the review model: chapters over all the files of a run, inputs of the prompts
MaxTotalChapters == 4
MaxCount == 2
MaxPerEpisode == 2

\* the detection model: chapters over all the files of a run
DetMaxChapters == 5

\* the model of the whole run: chapters over all the files of a run
RunMaxChapters == 4

\* the segmenter model: chapters of a file, length of a chapter in ticks
SegMaxChapters == 5
SegMaxChapterLen == 3

\* the scan model: chapter timestamps of a file, largest timestamp and
\* largest container duration in ticks
ScanMaxChapters == 3
ScanMaxStamp == 2

----------------------------------------------------------------------------
(* Arithmetic *)

Rat(n, d) == [n |-> n, d |-> d]

Abs(x) == IF x < 0 THEN -x ELSE x

Min(a, b) == IF a < b THEN a ELSE b

RECURSIVE GCD(_, _)
GCD(a, b) == IF b = 0 THEN a ELSE GCD(b, a % b)

RECURSIVE SumSeq(_)
SumSeq(s) == IF s = <<>> THEN 0 ELSE Head(s) + SumSeq(Tail(s))

RECURSIVE Flatten(_)
Flatten(ss) == IF ss = <<>> THEN <<>> ELSE Head(ss) \o Flatten(Tail(ss))

\* all sequences over S of length lo..hi
SeqsOf(S, lo, hi) == UNION {[1..n -> S] : n \in lo..hi}

----------------------------------------------------------------------------
(* Data model *)

\* Chapter.duration
duration(ch) == ch.end_time - ch.start_time

\* Episode.start_time / end_time / duration
ep_start_time(ep) == IF ep.chapters # <<>> THEN ep.chapters[1].start_time ELSE 0

\* variant of ep_end_time: the end of the first chapter
ep_end_time_of_first(ep) == IF ep.chapters # <<>> THEN ep.chapters[1].end_time ELSE 0

ep_end_time(ep) == IF ep.chapters # <<>> THEN ep.chapters[Len(ep.chapters)].end_time ELSE 0

ep_duration(ep) == ep_end_time(ep) - ep_start_time(ep)

Episode(number, chapters) == [number |-> number, chapters |-> chapters]

MkvFile(chapters, total_duration) ==
    [chapters |-> chapters, total_duration |-> total_duration,
     episodes |-> <<>>, skip |-> FALSE]

\* analyze_file: the chapter list built from the chapter start timestamps and
\* the container duration
analyze_file(timestamps, dur) ==
    MkvFile([i \in 1..Len(timestamps) |->
                [index      |-> i,
                 start_time |-> timestamps[i],
                 end_time   |-> IF i + 1 <= Len(timestamps)
                                THEN timestamps[i + 1] ELSE dur]],
            dur)

\* analyze_file returns None for a file without two chapter timestamps or
\* without a duration
unsuitable(timestamps, dur) == Len(timestamps) < 2 \/ dur = 0

\* no directory is being scanned
ScanIdle == [paths |-> <<>>, skipped |-> 0]

\* the timestamps of a file whose chapters last ds[1], ds[2], ... from time 0
StartsOf(ds) == [i \in 1..Len(ds) |-> SumSeq(SubSeq(ds, 1, i - 1))]

FileOf(ds) == analyze_file(StartsOf(ds), SumSeq(ds))

----------------------------------------------------------------------------
(* Segmenter: split_by_duration_target *)

\* the default of the tolerance parameter, 0.20
DefaultTolerance == Rat(1, 5)

\* variant of min_duration_reached: min_duration = target_duration * tolerance
min_duration_reached_tolerance_only(accumulated, T, tol) ==
    accumulated * T.d * tol.d >= T.n * tol.n

\* accumulated >= min_duration, min_duration = target_duration * (1 - tolerance)
min_duration_reached(accumulated, T, tol) ==
    accumulated * T.d * tol.d >= T.n * (tol.d - tol.n)

\* variant of exceeds_max_overshoot: max_overshoot = target_duration *
\* (1 - tolerance * 2)
exceeds_max_overshoot_below(x, T, tol) ==
    x * T.d * tol.d > T.n * (tol.d - 2 * tol.n)

\* x > max_overshoot, max_overshoot = target_duration * (1 + tolerance * 2)
exceeds_max_overshoot(x, T, tol) ==
    x * T.d * tol.d > T.n * (tol.d + 2 * tol.n)

\* variant of below_min_valid_episode: min_valid_episode = target_duration * 0.25
below_quarter_episode(remaining, T) ==
    4 * remaining * T.d < T.n

\* remaining_duration < min_valid_episode, min_valid_episode = target_duration * 0.5
below_min_valid_episode(remaining, T) ==
    2 * remaining * T.d < T.n

\* variant of split_not_farther: distance_if_split < distance_if_continue
split_strictly_closer(accumulated, accumulated_with_next, T) ==
    Abs(accumulated * T.d - T.n) < Abs(accumulated_with_next * T.d - T.n)

\* distance_if_split <= distance_if_continue
split_not_farther(accumulated, accumulated_with_next, T) ==
    Abs(accumulated * T.d - T.n) <= Abs(accumulated_with_next * T.d - T.n)

\* remaining duration after the current chapter, as the loop computes it
remaining_duration(mkv, current_chapters, accumulated) ==
    mkv.total_duration - (current_chapters[1].start_time + accumulated)

\* variant of should_split: inside the window the episode is closed only
\* once it exceeds max_overshoot
should_split_after_overshoot(mkv, T, tol, i, current_chapters, accumulated) ==
    LET remaining == remaining_duration(mkv, current_chapters, accumulated)
    IN  /\ exceeds_max_overshoot(accumulated, T, tol)
        /\ ~below_min_valid_episode(remaining, T)

\* the decision of one iteration at a chapter that is not the last one;
\* `continue` on a short remainder leaves should_split FALSE
should_split(mkv, T, tol, i, current_chapters, accumulated) ==
    LET remaining == remaining_duration(mkv, current_chapters, accumulated)
        next_chapter == mkv.chapters[i + 2]
        accumulated_with_next == accumulated + duration(next_chapter)
    IN  IF min_duration_reached(accumulated, T, tol)
        THEN IF below_min_valid_episode(remaining, T)
             THEN FALSE
             ELSE IF split_not_farther(accumulated, accumulated_with_next, T)
                  THEN TRUE
                  ELSE exceeds_max_overshoot(accumulated_with_next, T, tol)
        ELSE IF exceeds_max_overshoot(accumulated, T, tol)
             THEN ~below_min_valid_episode(remaining, T)
             ELSE FALSE

\* the locals before the loop; i is 0-based as in the program
seg_locals(start_episode) ==
    [i |-> 0, ep_num |-> start_episode, current_chapters |-> <<>>,
     accumulated |-> 0, episodes |-> <<>>, done |-> FALSE]

\* variant of loop_body: accumulated is not reset when an episode is closed
loop_body_keeping_accumulated(mkv, T, tol, st) ==
    LET chapter == mkv.chapters[st.i + 1]
        current_chapters == Append(st.current_chapters, chapter)
        accumulated == st.accumulated + duration(chapter)
        is_last_chapter == (st.i = Len(mkv.chapters) - 1)
    IN  IF is_last_chapter
        THEN [st EXCEPT !.current_chapters = current_chapters,
                        !.accumulated = accumulated,
                        !.episodes = Append(@, Episode(st.ep_num, current_chapters)),
                        !.done = TRUE]
        ELSE IF should_split(mkv, T, tol, st.i, current_chapters, accumulated)
        THEN [st EXCEPT !.episodes = Append(@, Episode(st.ep_num, current_chapters)),
                        !.ep_num = @ + 1,
                        !.current_chapters = <<>>,
                        !.accumulated = accumulated,
                        !.i = @ + 1]
        ELSE [st EXCEPT !.current_chapters = current_chapters,
                        !.accumulated = accumulated,
                        !.i = @ + 1]

\* one iteration of the while loop; done is set when the loop is left
loop_body(mkv, T, tol, st) ==
    LET chapter == mkv.chapters[st.i + 1]
        current_chapters == Append(st.current_chapters, chapter)
        accumulated == st.accumulated + duration(chapter)
        is_last_chapter == (st.i = Len(mkv.chapters) - 1)
    IN  IF is_last_chapter
        THEN [st EXCEPT !.current_chapters = current_chapters,
                        !.accumulated = accumulated,
                        !.episodes = Append(@, Episode(st.ep_num, current_chapters)),
                        !.done = TRUE]
        ELSE IF should_split(mkv, T, tol, st.i, current_chapters, accumulated)
        THEN [st EXCEPT !.episodes = Append(@, Episode(st.ep_num, current_chapters)),
                        !.ep_num = @ + 1,
                        !.current_chapters = <<>>,
                        !.accumulated = 0,
                        !.i = @ + 1]
        ELSE [st EXCEPT !.current_chapters = current_chapters,
                        !.accumulated = accumulated,
                        !.i = @ + 1]

RECURSIVE run_loop(_, _, _, _)
run_loop(mkv, T, tol, st) ==
    IF st.done \/ st.i >= Len(mkv.chapters)
    THEN st.episodes
    ELSE run_loop(mkv, T, tol, loop_body(mkv, T, tol, st))

split_by_duration_target(mkv, T, tol, start_episode) ==
    IF mkv.chapters = <<>> THEN <<>>
    ELSE run_loop(mkv, T, tol, seg_locals(start_episode))

----------------------------------------------------------------------------
(* Detection: fixed chapter count, known total count, auto-detection *)

\* variant of split_by_chapter_count: a last run that is short is dropped
split_by_chapter_count_full_runs(mkv, chapters_per_episode, start_episode) ==
    LET n == Len(mkv.chapters)
        runs == n \div chapters_per_episode
    IN  [j \in 1..runs |->
            Episode(start_episode + j - 1,
                    SubSeq(mkv.chapters, (j - 1) * chapters_per_episode + 1,
                           j * chapters_per_episode))]

\* split_by_chapter_count: runs of chapters_per_episode chapters, the last may be short
split_by_chapter_count(mkv, chapters_per_episode, start_episode) ==
    LET n == Len(mkv.chapters)
        runs == (n + chapters_per_episode - 1) \div chapters_per_episode
    IN  [j \in 1..runs |->
            Episode(start_episode + j - 1,
                    SubSeq(mkv.chapters, (j - 1) * chapters_per_episode + 1,
                           Min(j * chapters_per_episode, n)))]

\* the loop "for mkv in files: eps = split_by_duration_target(mkv, T,
\* start_episode=episode_number); episode_number += len(eps)": the episode lists
RECURSIVE duration_plan(_, _, _)
duration_plan(fs, T, episode_number) ==
    IF fs = <<>> THEN <<>>
    ELSE LET eps == split_by_duration_target(Head(fs), T, DefaultTolerance, episode_number)
         IN  <<eps>> \o duration_plan(Tail(fs), T, episode_number + Len(eps))

\* the same loop over split_by_chapter_count (apply_detection)
RECURSIVE chapter_count_plan(_, _, _)
chapter_count_plan(fs, value, episode_number) ==
    IF fs = <<>> THEN <<>>
    ELSE LET eps == split_by_chapter_count(Head(fs), value, episode_number)
         IN  <<eps>> \o chapter_count_plan(Tail(fs), value, episode_number + Len(eps))

\* mkv.episodes = ... for every file
with_plan(fs, plan) == [k \in 1..Len(fs) |-> [fs[k] EXCEPT !.episodes = plan[k]]]

total_runtime(fs) == SumSeq([k \in 1..Len(fs) |-> fs[k].total_duration])

\* Python's round() of n/d for n >= 0, d > 0: to the nearest integer, a half to even
py_round(n, d) ==
    LET q == n \div d
        r == n % d
    IN  IF 2 * r < d THEN q
        ELSE IF 2 * r > d THEN q + 1
        ELSE IF q % 2 = 0 THEN q ELSE q + 1

\* the hypotheses of auto_detect_all, in minutes, in the order they are tried
Hypotheses == <<20, 22, 24, 26, 28, 30>>

\* the bounds on the mean episode duration, in minutes
MinAvgMinutes == 18

MaxAvgMinutes == 35

\* the square of the coefficient of variation of the durations ds (their mean
\* is positive), in lowest terms: (n*sum(d^2) - sum(d)^2) / sum(d)^2
cv_squared(ds) ==
    LET n == Len(ds)
        s == SumSeq(ds)
        q == SumSeq([k \in 1..n |-> ds[k] * ds[k]])
        num == n * q - s * s
        den == s * s
        g == GCD(num, den)
    IN  Rat(num \div g, den \div g)

RatLess(a, b) == a.n * b.d < b.n * a.d

\* one hypothesis of auto_detect_all: the candidate list after trying it
try_hypothesis(fs, target_minutes, candidates) ==
    LET target == target_minutes * TicksPerMinute
        estimated_total == py_round(total_runtime(fs), target)
        all_episodes == Flatten(duration_plan(fs, Rat(target, 1), 1))
        durations == [k \in 1..Len(all_episodes) |-> ep_duration(all_episodes[k])]
        n == Len(durations)
        s == SumSeq(durations)
    IN  IF estimated_total < Len(fs) THEN candidates
        ELSE IF \E k \in 1..Len(candidates) : candidates[k].total_episodes = estimated_total
        THEN candidates
        ELSE IF n < 2 THEN candidates
        ELSE IF ~(MinAvgMinutes * TicksPerMinute * n <= s /\ s <= MaxAvgMinutes * TicksPerMinute * n)
        THEN candidates
        ELSE Append(candidates, [total_episodes |-> n,
                                 target_duration |-> Rat(target, 1),
                                 cv |-> cv_squared(durations)])

RECURSIVE collect_candidates(_, _, _)
collect_candidates(fs, hyps, candidates) ==
    IF hyps = <<>> THEN candidates
    ELSE collect_candidates(fs, Tail(hyps), try_hypothesis(fs, Head(hyps), candidates))

\* candidates.sort(key=cv); candidates[0]: the sort is stable, so the first of
\* the candidates of lowest cv
best_candidate(candidates) ==
    LET k == CHOOSE k \in 1..Len(candidates) :
                 /\ \A j \in 1..Len(candidates) : ~RatLess(candidates[j].cv, candidates[k].cv)
                 /\ \A j \in 1..(k - 1) : RatLess(candidates[k].cv, candidates[j].cv)
    IN  candidates[k]

NoTarget == Rat(0, 1)

\* auto_detect_all: [ok, files, target]
auto_detect_all(fs) ==
    LET candidates == collect_candidates(fs, Hypotheses, <<>>)
    IN  IF candidates = <<>>
        THEN [ok |-> FALSE, files |-> fs, target |-> NoTarget]
        ELSE LET best == best_candidate(candidates)
             IN  [ok |-> TRUE,
                  files |-> with_plan(fs, duration_plan(fs, best.target_duration, 1)),
                  target |-> best.target_duration]

\* split_all_by_duration: actual_count != total_episodes, which prints a warning
count_mismatch(fs, total_episodes) ==
    SumSeq([k \in 1..Len(fs) |-> Len(fs[k].episodes)]) # total_episodes

\* variant of split_all_by_duration: a count that is not met is a failure
split_all_by_duration_strict(fs, total_episodes) ==
    LET target == Rat(total_runtime(fs), total_episodes)
        planned == with_plan(fs, duration_plan(fs, target, 1))
    IN  IF count_mismatch(planned, total_episodes)
        THEN [ok |-> FALSE, files |-> fs, target |-> NoTarget]
        ELSE [ok |-> TRUE, files |-> planned, target |-> target]

\* split_all_by_duration: [ok, files, target]
split_all_by_duration(fs, total_episodes) ==
    LET target == Rat(total_runtime(fs), total_episodes)
    IN  [ok |-> TRUE,
         files |-> with_plan(fs, duration_plan(fs, target, 1)),
         target |-> target]

\* apply_detection: [ok, files, target]
apply_detection(fs, m, value) ==
    IF m = "total_episodes" THEN split_all_by_duration(fs, value)
    ELSE IF m = "auto" THEN auto_detect_all(fs)
    ELSE [ok |-> TRUE, files |-> with_plan(fs, chapter_count_plan(fs, value, 1)),
          target |-> NoTarget]

\* the fallback of main when no episode was detected, 24 minutes
FallbackMinutes == 24

\* main: the target duration "for use in editing"
editing_target(fs) ==
    LET total_episodes == SumSeq([k \in 1..Len(fs) |->
                                    IF fs[k].skip THEN 0 ELSE Len(fs[k].episodes)])
    IN  IF total_episodes > 0 THEN Rat(total_runtime(fs), total_episodes)
        ELSE Rat(FallbackMinutes * TicksPerMinute, 1)

----------------------------------------------------------------------------
(* Review session: find_episode_location, edit_episode, renumber_all_episodes *)

\* display_analysis: the episode count of the files that are not skipped
total_episodes_shown(fs) ==
    SumSeq([k \in 1..Len(fs) |-> IF fs[k].skip THEN 0 ELSE Len(fs[k].episodes)])

\* variant of find_episode_location: the skipped files are searched as well
find_episode_location_in_all(fs, episode_num) ==
    LET hits == UNION {{<<f, i>> : i \in {i \in 1..Len(fs[f].episodes) :
                                            fs[f].episodes[i].number = episode_num}} :
                       f \in 1..Len(fs)}
    IN  IF hits = {} THEN [found |-> FALSE, file |-> 0, ep_idx |-> 0]
        ELSE LET first == CHOOSE p \in hits : \A q \in hits :
                              p[1] < q[1] \/ (p[1] = q[1] /\ p[2] <= q[2])
             IN  [found |-> TRUE, file |-> first[1], ep_idx |-> first[2]]

\* find_episode_location: the first episode, in scan order, of a file that is
\* not skipped, that carries the number; [found, file, ep_idx], ep_idx 1-based
find_episode_location(fs, episode_num) ==
    LET hits == UNION {{<<f, i>> : i \in {i \in 1..Len(fs[f].episodes) :
                                            fs[f].episodes[i].number = episode_num}} :
                       f \in {f \in 1..Len(fs) : ~fs[f].skip}}
    IN  IF hits = {} THEN [found |-> FALSE, file |-> 0, ep_idx |-> 0]
        ELSE LET first == CHOOSE p \in hits : \A q \in hits :
                              p[1] < q[1] \/ (p[1] = q[1] /\ p[2] <= q[2])
             IN  [found |-> TRUE, file |-> first[1], ep_idx |-> first[2]]

\* variant of expected_start: the last chapter of the previous episode itself
expected_start_overlapping(mkv, ep_idx) ==
    IF ep_idx = 1 THEN 1
    ELSE LET prev_ep == mkv.episodes[ep_idx - 1]
         IN  prev_ep.chapters[Len(prev_ep.chapters)].index

\* the chapter the edited episode has to start at
expected_start(mkv, ep_idx) ==
    IF ep_idx = 1 THEN 1
    ELSE LET prev_ep == mkv.episodes[ep_idx - 1]
         IN  prev_ep.chapters[Len(prev_ep.chapters)].index + 1

\* the range check of edit_episode
invalid_range(mkv, start_ch, end_ch) ==
    start_ch < 1 \/ end_ch > Len(mkv.chapters) \/ start_ch > end_ch

\* [ch for ch in mkv.chapters if start_ch <= ch.index <= end_ch]
chapters_in_range(mkv, start_ch, end_ch) ==
    LET InRange(ch) == start_ch <= ch.index /\ ch.index <= end_ch
    IN  SelectSeq(mkv.chapters, InRange)

\* variant of remaining_chapters: the remainder starts one chapter late
remaining_chapters_late(mkv, end_ch) ==
    LET remaining_start_ch == end_ch + 1
        After(ch) == ch.index > remaining_start_ch
    IN  SelectSeq(mkv.chapters, After)

\* [ch for ch in mkv.chapters if ch.index >= end_ch + 1]
remaining_chapters(mkv, end_ch) ==
    LET remaining_start_ch == end_ch + 1
        After(ch) == ch.index >= remaining_start_ch
    IN  SelectSeq(mkv.chapters, After)

\* the temporary MkvFile the remainder is re-detected on
temp_mkv(remaining) ==
    MkvFile(remaining, remaining[Len(remaining)].end_time - remaining[1].start_time)

\* the outcome of an edit command: what edit_episode prints or does
edit_outcome(fs, episode_num, input) ==
    LET location == find_episode_location(fs, episode_num)
        mkv == fs[location.file]
    IN  IF ~location.found THEN "not_found"
        ELSE IF input.kind = "cancel" THEN "cancelled"
        ELSE IF input.kind # "range" THEN "invalid_format"
        ELSE IF invalid_range(mkv, input.start_ch, input.end_ch) THEN "invalid_range"
        ELSE IF input.start_ch # expected_start(mkv, location.ep_idx) THEN "bad_start"
        ELSE IF chapters_in_range(mkv, input.start_ch, input.end_ch) = <<>> THEN "no_chapters"
        ELSE "updated"

\* variant of updated_episodes: the old episodes after the edited one stay
updated_episodes_keeping_old(mkv, ep_idx, start_ch, end_ch, T) ==
    LET ep == [mkv.episodes[ep_idx] EXCEPT
                  !.chapters = chapters_in_range(mkv, start_ch, end_ch)]
        kept == [mkv.episodes EXCEPT ![ep_idx] = ep]
        remaining == remaining_chapters(mkv, end_ch)
    IN  IF remaining # <<>>
        THEN kept \o split_by_duration_target(temp_mkv(remaining), T,
                                              DefaultTolerance, ep.number + 1)
        ELSE kept

\* the update of an accepted edit: the episode gets the new chapters, the
\* episodes after it are removed, the remaining chapters are re-detected
updated_episodes(mkv, ep_idx, start_ch, end_ch, T) ==
    LET ep == [mkv.episodes[ep_idx] EXCEPT
                  !.chapters = chapters_in_range(mkv, start_ch, end_ch)]
        kept == Append(SubSeq(mkv.episodes, 1, ep_idx - 1), ep)
        remaining == remaining_chapters(mkv, end_ch)
    IN  IF remaining # <<>>
        THEN kept \o split_by_duration_target(temp_mkv(remaining), T,
                                              DefaultTolerance, ep.number + 1)
        ELSE kept

\* variant of edit_episode: the episode is updated before the start chapter
\* is checked
edit_episode_early_update(fs, episode_num, input, T) ==
    LET location == find_episode_location(fs, episode_num)
    IN  IF edit_outcome(fs, episode_num, input) \in {"updated", "bad_start"}
        THEN [fs EXCEPT ![location.file].episodes =
                  updated_episodes(fs[location.file], location.ep_idx,
                                   input.start_ch, input.end_ch, T)]
        ELSE fs

\* edit_episode: the files after the command
edit_episode(fs, episode_num, input, T) ==
    LET location == find_episode_location(fs, episode_num)
    IN  IF edit_outcome(fs, episode_num, input) = "updated"
        THEN [fs EXCEPT ![location.file].episodes =
                  updated_episodes(fs[location.file], location.ep_idx,
                                   input.start_ch, input.end_ch, T)]
        ELSE fs

\* variant of renumber_all_episodes: the counter runs on over skipped files
renumber_counting_skipped(fs) ==
    [f \in 1..Len(fs) |->
        IF fs[f].skip THEN fs[f]
        ELSE [fs[f] EXCEPT !.episodes =
                 [i \in 1..Len(fs[f].episodes) |->
                     [fs[f].episodes[i] EXCEPT
                         !.number = SumSeq([g \in 1..(f - 1) |-> Len(fs[g].episodes)]) + i]]]]

\* variant of renumber_all_episodes: the numbers start at 1 in every file
renumber_per_file(fs) ==
    [f \in 1..Len(fs) |->
        IF fs[f].skip THEN fs[f]
        ELSE [fs[f] EXCEPT !.episodes =
                 [i \in 1..Len(fs[f].episodes) |->
                     [fs[f].episodes[i] EXCEPT !.number = i]]]]

\* renumber_all_episodes: 1, 2, ... over the files that are not skipped
renumber_all_episodes(fs) ==
    [f \in 1..Len(fs) |->
        IF fs[f].skip THEN fs[f]
        ELSE [fs[f] EXCEPT !.episodes =
                 [i \in 1..Len(fs[f].episodes) |->
                     [fs[f].episodes[i] EXCEPT
                         !.number = total_episodes_shown(SubSeq(fs, 1, f - 1)) + i]]]]

\* variant of toggle_skip: files[idx].skip = True
toggle_skip_on(fs, n) == [fs EXCEPT ![n].skip = TRUE]

\* files[idx].skip = not files[idx].skip
toggle_skip(fs, n) == [fs EXCEPT ![n].skip = ~@]

----------------------------------------------------------------------------
(* The run: main, prompt_detection_method, interactive_review *)

\* chapter lengths of the scanned files, in ticks (8 and 12 minutes)
ChapterDurations == {40, 60}

\* the files analyze_file accepts have 2 chapters or more
FilesUpTo(budget) ==
    {FileOf(ds) : ds \in SeqsOf(ChapterDurations, 2, budget)}

\* the lists of files whose chapters number budget or fewer in all
RECURSIVE FileLists(_)
FileLists(budget) ==
    {<<>>} \cup UNION {{<<f>> \o rest : rest \in FileLists(budget - Len(f.chapters))} :
                       f \in FilesUpTo(budget)}

\* what prompt_detection_method returns
DetectionChoices ==
    {<<"auto", 0>>}
        \cup {<<"total_episodes", count>> : count \in 1..MaxCount}
        \cup {<<"chapter_count", count>> : count \in 1..MaxPerEpisode}

\* what edit_episode reads at its prompt, for a file of n chapters: cancel,
\* something that is no range, or a range of two numbers (a first chapter
\* from 0, below every chapter, and a last chapter up to n + 1, above them)
EditInputs(n) ==
    {[kind |-> "cancel", start_ch |-> 0, end_ch |-> 0],
     [kind |-> "format", start_ch |-> 0, end_ch |-> 0]}
        \cup {[kind |-> "range", start_ch |-> a, end_ch |-> b] :
                a \in 0..n, b \in 1..(n + 1)}

\* the episode numbers an edit command is tried with
EpisodeNumbers == 0..MaxTotalChapters

SegIdle ==
    [target |-> NoTarget, tolerance |-> DefaultTolerance, start_episode |-> 0,
     i |-> 0, ep_num |-> 0, current_chapters |-> <<>>, accumulated |-> 0,
     episodes |-> <<>>, done |-> TRUE, rerun |-> FALSE, previous |-> <<>>]

\* what was read last: the choice at the detection prompt (arg is the count),
\* or a command of the review loop: 'e <arg>' with the input that edit_episode
\* read (kind, start_ch-end_ch; kind "none" when it did not prompt), 's <arg>',
\* 'g', 'q', or something else ("bad")
NoCmd == [op |-> "none", arg |-> 0, kind |-> "none", start_ch |-> 0, end_ch |-> 0]

Command(op, arg) == [NoCmd EXCEPT !.op = op, !.arg = arg]

Init ==
    /\ files \in FileLists(MaxTotalChapters) \ {<<>>}
    /\ pc = "prompt"
    /\ method = "none"
    /\ plan_target = NoTarget
    /\ target_duration = NoTarget
    /\ cmd = NoCmd
    /\ msg = "none"
    /\ seg = SegIdle
    /\ requests = <<>>
    /\ results = <<>>
    /\ scan = ScanIdle

\* main: detection with the method chosen at the prompt, then the target
\* duration for editing and the review. A failed detection leads to a second
\* prompt, and a second failure ends the run
Detect ==
    /\ pc \in {"prompt", "fallback"}
    /\ \E choice \in DetectionChoices :
          LET r == apply_detection(files, choice[1], choice[2])
          IN  /\ method' = choice[1]
              /\ cmd' = Command("detect", choice[2])
              /\ IF r.ok
                 THEN /\ files' = r.files
                      /\ plan_target' = r.target
                      /\ target_duration' = editing_target(r.files)
                      /\ pc' = "display"
                      /\ msg' = IF choice[1] = "total_episodes"
                                    /\ count_mismatch(r.files, choice[2])
                                 THEN "count_mismatch" ELSE "analyzed"
                 ELSE /\ pc' = IF pc = "prompt" THEN "fallback" ELSE "exit"
                      /\ msg' = "detection_failed"
                      /\ UNCHANGED <<files, plan_target, target_duration>>
    /\ UNCHANGED <<seg, requests, results, scan>>

\* interactive_review: the top of the loop, display_analysis and the prompt
Display ==
    /\ pc = "display"
    /\ pc' = "review"
    /\ cmd' = NoCmd
    /\ msg' = "analysis"
    /\ UNCHANGED <<files, method, plan_target, target_duration, seg, requests, results, scan>>

\* interactive_review: 'q', end of input or interrupt
Quit ==
    /\ pc = "review"
    /\ pc' = "cancelled"
    /\ cmd' = Command("q", 0)
    /\ msg' = "cancelled"
    /\ UNCHANGED <<files, method, plan_target, target_duration, seg, requests, results, scan>>

\* variant of Go: 'g' returns True whatever the number of episodes shown
Go_without_episodes ==
    /\ pc = "review"
    /\ cmd' = Command("g", 0)
    /\ pc' = "confirmed" /\ msg' = "proceed"
    /\ UNCHANGED <<files, method, plan_target, target_duration, seg, requests, results, scan>>

\* interactive_review: 'g'
Go ==
    /\ pc = "review"
    /\ cmd' = Command("g", 0)
    /\ IF total_episodes_shown(files) = 0
       THEN pc' = "display" /\ msg' = "no_episodes"
       ELSE pc' = "confirmed" /\ msg' = "proceed"
    /\ UNCHANGED <<files, method, plan_target, target_duration, seg, requests, results, scan>>

\* interactive_review: 'e <ep_num>' with the input edit_episode reads:
\* edit_episode, then renumber_all_episodes
EditStep(ep_num, input) ==
    /\ pc = "review"
    /\ cmd' = [op |-> "e", arg |-> ep_num, kind |-> input.kind,
               start_ch |-> input.start_ch, end_ch |-> input.end_ch]
    /\ msg' = edit_outcome(files, ep_num, input)
    /\ files' = renumber_all_episodes(edit_episode(files, ep_num, input, target_duration))
    /\ pc' = "display"
    /\ UNCHANGED <<method, plan_target, target_duration, seg, requests, results, scan>>

\* the prompt of edit_episode is reached only when the episode is found
Edit ==
    \E ep_num \in EpisodeNumbers :
        LET location == find_episode_location(files, ep_num)
        IN  IF location.found
            THEN \E input \in EditInputs(Len(files[location.file].chapters)) :
                    EditStep(ep_num, input)
            ELSE EditStep(ep_num, [kind |-> "none", start_ch |-> 0, end_ch |-> 0])

\* interactive_review: 's <n>', toggle then renumber_all_episodes
Skip ==
    /\ pc = "review"
    /\ \E n \in 0..(Len(files) + 1) :
          /\ cmd' = Command("s", n)
          /\ IF 0 <= n - 1 /\ n - 1 < Len(files)
             THEN /\ files' = renumber_all_episodes(toggle_skip(files, n))
                  /\ msg' = IF files'[n].skip THEN "skipped" ELSE "included"
             ELSE /\ files' = files
                  /\ msg' = "invalid_file"
    /\ pc' = "display"
    /\ UNCHANGED <<method, plan_target, target_duration, seg, requests, results, scan>>

\* interactive_review: 'e' or 's' without a number, or any other input
BadCommand ==
    /\ pc = "review"
    /\ cmd' = Command("bad", 0)
    /\ msg' \in {"usage", "unknown"}
    /\ pc' = "display"
    /\ UNCHANGED <<files, method, plan_target, target_duration, seg, requests, results, scan>>

Next ==
    \/ Detect
    \/ Display
    \/ Quit
    \/ Go
    \/ Edit
    \/ Skip
    \/ BadCommand

Spec == Init /\ [][Next]_vars

----------------------------------------------------------------------------
(* The run up to the first prompt of the review, on longer files *)

DetInit ==
    /\ files \in FileLists(DetMaxChapters) \ {<<>>}
    /\ pc = "prompt"
    /\ method = "none"
    /\ plan_target = NoTarget
    /\ target_duration = NoTarget
    /\ cmd = NoCmd
    /\ msg = "none"
    /\ seg = SegIdle
    /\ requests = <<>>
    /\ results = <<>>
    /\ scan = ScanIdle

DetNext ==
    \/ Detect
    \/ Display

DetSpec == DetInit /\ [][DetNext]_vars

----------------------------------------------------------------------------
(* Materialization: process_files, process_file *)

\* a request to mkvmerge, to the file system or to renumber_chapters, for the
\* file at position file of the scan order: "split" at the chapters points,
\* "remux", "cleanup" of the temporary parts, "rename" of part number part to
\* the name of episode number, "renumber_chapters" of that output (count
\* chapters)
Request(op, file) ==
    [op |-> op, file |-> file, points |-> <<>>, part |-> 0, number |-> 0, count |-> 0]

\* variant of split_points: the last chapter of the episode before
split_points_at_last(mkv) ==
    [k \in 1..(Len(mkv.episodes) - 1) |->
        mkv.episodes[k].chapters[Len(mkv.episodes[k].chapters)].index]

\* the chapter numbers to split at: the first chapter of every episode but
\* the first one
split_points(mkv) ==
    [k \in 1..(Len(mkv.episodes) - 1) |-> mkv.episodes[k + 1].chapters[1].index]

\* the call of mkvmerge: a split when there are split points, a remux when
\* there are none
merge_request(f, mkv) ==
    IF split_points(mkv) # <<>>
    THEN [Request("split", f) EXCEPT !.points = split_points(mkv)]
    ELSE Request("remux", f)

\* variant of rename_requests: the output is named after the number of the
\* part, not after the number of the episode
RECURSIVE rename_requests_by_part(_, _, _, _)
rename_requests_by_part(f, mkv, i, found) ==
    IF i > Len(mkv.episodes) \/ i > found THEN <<>>
    ELSE LET ep == mkv.episodes[i]
         IN  <<[Request("rename", f) EXCEPT !.part = i, !.number = i],
               [Request("renumber_chapters", f) EXCEPT
                   !.number = i, !.count = Len(ep.chapters)]>>
                 \o rename_requests_by_part(f, mkv, i + 1, found)

\* the loop over the episodes: the parts 1..found are there, each is renamed
\* and its chapters are renumbered
RECURSIVE rename_requests(_, _, _, _)
rename_requests(f, mkv, i, found) ==
    IF i > Len(mkv.episodes) \/ i > found THEN <<>>
    ELSE LET ep == mkv.episodes[i]
         IN  <<[Request("rename", f) EXCEPT !.part = i, !.number = ep.number],
               [Request("renumber_chapters", f) EXCEPT
                   !.number = ep.number, !.count = Len(ep.chapters)]>>
                 \o rename_requests(f, mkv, i + 1, found)

\* what the tools can do with a file: mkvmerge succeeds or fails, the parts
\* 1..parts are found after it, renumber_chapters succeeds or fails
Outcomes(mkv) ==
    IF mkv.skip THEN {[merge_ok |-> TRUE, parts |-> 0, renumber_ok |-> TRUE]}
    ELSE {[merge_ok |-> FALSE, parts |-> 0, renumber_ok |-> TRUE]}
            \cup [merge_ok : {TRUE}, parts : 0..Len(mkv.episodes), renumber_ok : BOOLEAN]

\* process_file: [ok, requests, warned]
process_file(f, mkv, outcome) ==
    IF mkv.episodes = <<>>
    THEN [ok |-> FALSE, requests |-> <<>>, warned |-> FALSE]
    ELSE IF ~outcome.merge_ok
    THEN [ok |-> FALSE,
          requests |-> <<merge_request(f, mkv), Request("cleanup", f)>>,
          warned |-> FALSE]
    ELSE [ok |-> outcome.parts >= Len(mkv.episodes),
          requests |-> <<merge_request(f, mkv)>>
                          \o rename_requests(f, mkv, 1, outcome.parts),
          warned |-> outcome.parts >= 1 /\ ~outcome.renumber_ok]

\* variant of process_files: the run stops at the first file that fails
RECURSIVE process_files_until_failure(_, _, _)
process_files_until_failure(fs, outcomes, f) ==
    IF f > Len(fs) THEN [requests |-> <<>>, results |-> <<>>]
    ELSE IF fs[f].skip THEN process_files_until_failure(fs, outcomes, f + 1)
    ELSE LET r == process_file(f, fs[f], outcomes[f])
             rest == IF r.ok THEN process_files_until_failure(fs, outcomes, f + 1)
                     ELSE [requests |-> <<>>, results |-> <<>>]
         IN  [requests |-> r.requests \o rest.requests,
              results |-> <<[file |-> f, ok |-> r.ok, warned |-> r.warned]>>
                             \o rest.results]

\* process_files: the files that are not skipped, in scan order; f is the
\* position of the next file: [requests, results]
RECURSIVE process_files(_, _, _)
process_files(fs, outcomes, f) ==
    IF f > Len(fs) THEN [requests |-> <<>>, results |-> <<>>]
    ELSE LET rest == process_files(fs, outcomes, f + 1)
         IN  IF fs[f].skip THEN rest
             ELSE LET r == process_file(f, fs[f], outcomes[f])
                  IN  [requests |-> r.requests \o rest.requests,
                       results |-> <<[file |-> f, ok |-> r.ok, warned |-> r.warned]>>
                                      \o rest.results]

\* the outcomes of the tools for every file of the list
RECURSIVE OutcomeLists(_)
OutcomeLists(fs) ==
    IF fs = <<>> THEN {<<>>}
    ELSE {<<o>> \o rest : o \in Outcomes(Head(fs)), rest \in OutcomeLists(Tail(fs))}

\* process_files with the outcomes the tools can have
ProcessFiles ==
    /\ \E outcomes \in OutcomeLists(files) :
          LET r == process_files(files, outcomes, 1)
          IN  /\ requests' = r.requests
              /\ results' = r.results
    /\ pc' = "done"
    /\ msg' = "completed"
    /\ UNCHANGED <<files, method, plan_target, target_duration, cmd, seg, scan>>

\* variant of Process: the files are processed whatever the review returned
Process_whatever_the_review ==
    /\ pc \in {"confirmed", "cancelled"}
    /\ ProcessFiles

\* main runs process_files when the review has returned True
Process ==
    /\ pc = "confirmed"
    /\ ProcessFiles

\* the whole run, on files whose chapters all last 12 minutes
RECURSIVE RunFileLists(_)
RunFileLists(budget) ==
    {<<>>} \cup UNION {{<<FileOf([k \in 1..n |-> 12 * TicksPerMinute])>> \o rest :
                            rest \in RunFileLists(budget - n)} : n \in 2..budget}

RunInit ==
    /\ files \in RunFileLists(RunMaxChapters) \ {<<>>}
    /\ pc = "prompt"
    /\ method = "none"
    /\ plan_target = NoTarget
    /\ target_duration = NoTarget
    /\ cmd = NoCmd
    /\ msg = "none"
    /\ seg = SegIdle
    /\ requests = <<>>
    /\ results = <<>>
    /\ scan = ScanIdle

RunNext ==
    \/ Next
    \/ Process

RunSpec == RunInit /\ [][RunNext]_vars

----------------------------------------------------------------------------
(* The scan of the directory: scan_directory, analyze_file *)

\* what the MKV tools report of a file: the chapter start timestamps in the
\* order of the chapter numbers (none when mkvextract fails or reports no
\* chapter) and the container duration (0 when mkvmerge fails or reports none)
RawFiles ==
    [timestamps : SeqsOf(0..ScanMaxStamp, 0, ScanMaxChapters),
     duration : 0..ScanMaxStamp]

\* main up to the call of scan_directory, on one or two files
ScanInit ==
    /\ scan \in {[paths |-> ps, skipped |-> 0] :
                    ps \in {<<a>> : a \in RawFiles}
                              \cup {<<a, b>> : a \in RawFiles, b \in RawFiles}}
    /\ files = <<>>
    /\ pc = "scan"
    /\ method = "none"
    /\ plan_target = NoTarget
    /\ target_duration = NoTarget
    /\ cmd = NoCmd
    /\ msg = "none"
    /\ seg = SegIdle
    /\ requests = <<>>
    /\ results = <<>>

\* one iteration of the loop of scan_directory: the file is analyzed and
\* listed, or left out with the message 'Skipping ...'
ScanFile ==
    /\ pc = "scan"
    /\ scan.paths # <<>>
    /\ LET raw == Head(scan.paths)
       IN  IF unsuitable(raw.timestamps, raw.duration)
           THEN /\ files' = files
                /\ scan' = [paths |-> Tail(scan.paths), skipped |-> scan.skipped + 1]
                /\ msg' = "skipping"
           ELSE /\ files' = Append(files, analyze_file(raw.timestamps, raw.duration))
                /\ scan' = [scan EXCEPT !.paths = Tail(scan.paths)]
                /\ msg' = "none"
    /\ UNCHANGED <<pc, method, plan_target, target_duration, cmd, seg, requests, results>>

\* main after scan_directory: no suitable file ends the run, else the
\* prompts follow
ScanEnd ==
    /\ pc = "scan"
    /\ scan.paths = <<>>
    /\ pc' = IF files = <<>> THEN "exit" ELSE "prompt"
    /\ msg' = IF files = <<>> THEN "no_suitable_files" ELSE "found"
    /\ UNCHANGED <<files, method, plan_target, target_duration, cmd, seg,
                   requests, results, scan>>

ScanNext ==
    \/ ScanFile
    \/ ScanEnd

ScanSpec == ScanInit /\ [][ScanNext]_vars

----------------------------------------------------------------------------
(* The segmenter step by step: one file, one call of split_by_duration_target *)

\* targets in ticks: 2, 5/2, 3, 7/2, 4, 5
SegTargets == {Rat(2, 1), Rat(5, 2), Rat(3, 1), Rat(7, 2), Rat(4, 1), Rat(5, 1)}

SegTolerances == {DefaultTolerance, Rat(0, 1), Rat(1, 2)}

\* a call of split_by_duration_target: its arguments, its locals, and what
\* the call before it on the same arguments returned (rerun, previous)
SegState(T, tol, start_episode) ==
    LET l == seg_locals(start_episode)
    IN  [target |-> T, tolerance |-> tol, start_episode |-> start_episode,
         i |-> l.i, ep_num |-> l.ep_num, current_chapters |-> l.current_chapters,
         accumulated |-> l.accumulated, episodes |-> l.episodes, done |-> l.done,
         rerun |-> FALSE, previous |-> <<>>]

\* a file of 23 one-minute chapters and a last chapter of 0.2 minute, and a
\* file of 48 one-minute chapters; target 24 minutes
StubFile == FileOf([k \in 1..24 |-> IF k = 24 THEN 1 ELSE TicksPerMinute])

EvenFile == FileOf([k \in 1..48 |-> TicksPerMinute])

ScenarioTarget == Rat(24 * TicksPerMinute, 1)

SegInit ==
    /\ \/ /\ files \in {<<FileOf(ds)>> : ds \in SeqsOf(1..SegMaxChapterLen, 1, SegMaxChapters)}
          /\ seg \in {SegState(T, tol, 1) : T \in SegTargets, tol \in SegTolerances}
       \/ /\ files \in {<<StubFile>>, <<EvenFile>>}
          /\ seg = SegState(ScenarioTarget, DefaultTolerance, 1)
    /\ pc = "segmenting"
    /\ method = "none"
    /\ plan_target = NoTarget
    /\ target_duration = NoTarget
    /\ cmd = NoCmd
    /\ msg = "none"
    /\ requests = <<>>
    /\ results = <<>>
    /\ scan = ScanIdle

\* variant of SegStep: the closed episodes are stored in the file as well
SegStep_storing_episodes ==
    /\ pc = "segmenting"
    /\ ~seg.done
    /\ seg.i < Len(files[1].chapters)
    /\ seg' = loop_body(files[1], seg.target, seg.tolerance, seg)
    /\ files' = [files EXCEPT ![1].episodes = seg'.episodes]
    /\ UNCHANGED <<pc, method, plan_target, target_duration, cmd, msg, requests, results, scan>>

\* one iteration of the loop of split_by_duration_target
SegStep ==
    /\ pc = "segmenting"
    /\ ~seg.done
    /\ seg.i < Len(files[1].chapters)
    /\ seg' = loop_body(files[1], seg.target, seg.tolerance, seg)
    /\ UNCHANGED <<files, pc, method, plan_target, target_duration, cmd, msg,
                   requests, results, scan>>

\* a second call on the same file with the same target, tolerance and start
\* number, as auto_detect_all makes when it applies the best candidate
SegRestart ==
    /\ pc = "segmenting"
    /\ seg.done
    /\ ~seg.rerun
    /\ seg' = [SegState(seg.target, seg.tolerance, seg.start_episode) EXCEPT
                  !.rerun = TRUE, !.previous = seg.episodes]
    /\ UNCHANGED <<files, pc, method, plan_target, target_duration, cmd, msg,
                   requests, results, scan>>

SegNext == SegStep \/ SegRestart

SegSpec == SegInit /\ [][SegNext]_vars

----------------------------------------------------------------------------
(* Properties of the review session (specification Spec) *)

\* the chapter numbers of an episode, in order
chapter_indices(ep) == [k \in 1..Len(ep.chapters) |-> ep.chapters[k].index]

\* the chapter numbers of the episodes from..to of a file, one after the other
indices_of(mkv, from, to) ==
    Flatten([k \in 1..(to - from + 1) |-> chapter_indices(mkv.episodes[from + k - 1])])

\* the numbers a..b as a sequence
Interval(a, b) == [k \in 1..(b - a + 1) |-> a + k - 1]

Planned == pc \in {"review", "display", "confirmed", "cancelled"}

Covers(mkv) ==
    /\ \A i \in 1..Len(mkv.episodes) : mkv.episodes[i].chapters # <<>>
    /\ indices_of(mkv, 1, Len(mkv.episodes)) = Interval(1, Len(mkv.chapters))

\* C1: once a detection has succeeded, and after every skip toggle and every
\* accepted or rejected edit, the episodes of every file are non-empty runs of
\* chapters whose concatenation is exactly the chapters 1..N of the file.
C1_Coverage == Planned => \A f \in 1..Len(files) : Covers(files[f])

\* an accepted edit has regenerated episodes after the edited one
C1_Witness ==
    /\ pc = "display" /\ msg = "updated" /\ cmd.op = "e"
    /\ \E f \in 1..Len(files) : Len(files[f].episodes) >= 3 /\ Covers(files[f])

\* the episode numbers of the files that are not skipped, in scan order
shown_numbers(fs) ==
    Flatten([f \in 1..Len(fs) |->
                IF fs[f].skip THEN <<>>
                ELSE [i \in 1..Len(fs[f].episodes) |-> fs[f].episodes[i].number]])

\* C2: whenever the review loop waits for a command, the episode numbers over
\* the files that are not skipped, in scan order, are exactly 1, 2, ..., K.
C2_Numbering ==
    pc = "review" => shown_numbers(files) = Interval(1, Len(shown_numbers(files)))

\* the first file is skipped and the second one is numbered from 1
C2_Witness ==
    /\ pc = "review" /\ Len(files) = 2
    /\ files[1].skip /\ ~files[2].skip
    /\ shown_numbers(files) = <<1, 2>>
    /\ files[1].episodes # <<>>

\* the places (file, position) of the episodes numbered e in files that are
\* not skipped
Located(e) ==
    {p \in UNION {{<<f, i>> : i \in 1..Len(files[f].episodes)} : f \in 1..Len(files)} :
        ~files[p[1]].skip /\ files[p[1]].episodes[p[2]].number = e}

\* the step is an edit command for which a range was read
RangeEdit == pc = "review" /\ cmd'.op = "e" /\ cmd'.kind = "range"

\* the frame and the effect of an accepted edit of the episode at position i
\* of file f, numbered e, to the chapters first..last
EditFrame(f, i, e, first, last) ==
    LET old == files[f]
        new == files'[f]
    IN  /\ Len(files') = Len(files)
        /\ Len(new.episodes) >= i
        /\ \A j \in 1..(i - 1) : new.episodes[j] = old.episodes[j]
        /\ \A g \in 1..Len(files) : g # f =>
              /\ Len(files'[g].episodes) = Len(files[g].episodes)
              /\ \A j \in 1..Len(files[g].episodes) :
                    files'[g].episodes[j].chapters = files[g].episodes[j].chapters
        /\ new.episodes[i].number = e
        /\ chapter_indices(new.episodes[i]) = Interval(first, last)
        /\ \A j \in (i + 1)..Len(new.episodes) : new.episodes[j].chapters # <<>>
        /\ indices_of(new, i + 1, Len(new.episodes)) = Interval(last + 1, Len(old.chapters))
        /\ last = Len(old.chapters) => Len(new.episodes) = i

\* C3: an accepted edit of episode E to first..last leaves the episodes before
\* E in its file (ranges and numbers) and the chapter ranges of every other
\* file unchanged, gives E the chapters first..last under the same number, and
\* replaces the episodes after E by episodes covering last+1..N (none when
\* last = N).
C3_EditFrame ==
    [][(RangeEdit /\ msg' = "updated") =>
          /\ Located(cmd'.arg) # {}
          /\ \A p \in Located(cmd'.arg) :
                EditFrame(p[1], p[2], cmd'.arg, cmd'.start_ch, cmd'.end_ch)]_vars

\* a plan of one episode for the whole run (known count 1) has got a second
\* episode: the first one was edited and the remainder was regenerated
C3_Witness ==
    /\ pc = "display" /\ msg = "updated"
    /\ cmd.op = "e" /\ cmd.arg = 1 /\ cmd.start_ch = 1 /\ cmd.end_ch < Len(files[1].chapters)
    /\ method = "total_episodes" /\ plan_target = Rat(total_runtime(files), 1)
    /\ Len(files) = 1 /\ Len(files[1].episodes) >= 2

\* the edit of the episode at position i of file f to first..last is in order
ValidEdit(f, i, first, last) ==
    /\ 1 <= first /\ first <= last /\ last <= Len(files[f].chapters)
    /\ first = IF i = 1 THEN 1
               ELSE chapter_indices(files[f].episodes[i - 1])[Len(files[f].episodes[i - 1].chapters)] + 1

\* C4: an edit command that is rejected (unknown episode number, first < 1,
\* last > N, first > last, first not right after the previous episode) leaves
\* the files as they were, ranges, numbers and skip flags, and the session
\* goes back to its prompt.
C4_RejectedEdit ==
    [][(/\ pc = "review" /\ cmd'.op = "e"
        /\ \/ Located(cmd'.arg) = {}
           \/ /\ cmd'.kind = "range"
              /\ \A p \in Located(cmd'.arg) :
                    ~ValidEdit(p[1], p[2], cmd'.start_ch, cmd'.end_ch))
       => (/\ files' = files
           /\ pc' = "display"
           /\ msg' \in {"not_found", "invalid_range", "bad_start"}
           /\ UNCHANGED <<method, plan_target, target_duration>>)]_vars

\* a range that does not start after the previous episode was refused while a
\* file was skipped
C4_Witness ==
    /\ pc = "display" /\ msg = "bad_start"
    /\ cmd.op = "e" /\ cmd.kind = "range" /\ cmd.start_ch <= cmd.end_ch
    /\ \E f \in 1..Len(files) : files[f].skip

\* C5: an edit of a found episode to first..last is accepted if and only if
\* 1 <= first <= last <= N and first is the chapter after the previous episode
\* of the file, or 1 for the first episode of the file.
C5_AcceptedIff ==
    [][RangeEdit =>
          /\ Located(cmd'.arg) # {}
          /\ \A p \in Located(cmd'.arg) :
                (msg' = "updated") <=>
                    ValidEdit(p[1], p[2], cmd'.start_ch, cmd'.end_ch)]_vars

\* the second of three one-chapter episodes was extended to the end of its file
C5_Witness ==
    /\ pc = "display" /\ msg = "updated"
    /\ cmd = [op |-> "e", arg |-> 2, kind |-> "range", start_ch |-> 2, end_ch |-> 3]
    /\ method = "chapter_count"
    /\ \E f \in 1..Len(files) :
          /\ Len(files[f].chapters) = 3 /\ Len(files[f].episodes) = 2
          /\ chapter_indices(files[f].episodes[2]) = <<2, 3>>

\* the remainder of a file after chapter last, with the duration of the file
rest_of_file(mkv, last) ==
    LET After(ch) == ch.index > last
    IN  [chapters |-> SelectSeq(mkv.chapters, After),
         total_duration |-> mkv.chapters[Len(mkv.chapters)].end_time,
         episodes |-> <<>>, skip |-> FALSE]

\* C6 (as claimed): the episodes that an accepted edit generates for the
\* chapters last+1..N are those the Segmenter yields for that run of chapters,
\* target T and first number E+1, when the time left at a chapter is the time
\* from its end to the end of the file.
C6_SameAsInitialPass ==
    [][(RangeEdit /\ msg' = "updated") =>
          \A p \in Located(cmd'.arg) :
              SubSeq(files'[p[1]].episodes, p[2] + 1, Len(files'[p[1]].episodes))
                = split_by_duration_target(rest_of_file(files[p[1]], cmd'.end_ch),
                                           target_duration, DefaultTolerance,
                                           cmd'.arg + 1)]_vars

\* C7 (as claimed): the target duration the review hands to edit_episode is the
\* one the detection segmented with (auto and known-count mode).
C7_SameTarget ==
    (pc = "review" /\ method \in {"auto", "total_episodes"}) =>
        target_duration.n * plan_target.d = plan_target.n * target_duration.d

----------------------------------------------------------------------------
(* Properties of the Segmenter (specification SegSpec) *)

\* the number of the last chapter of an episode
last_index(ep) == ep.chapters[Len(ep.chapters)].index

\* the length of chapter c of the file being segmented
chapter_length(c) == files[1].chapters[c].end_time - files[1].chapters[c].start_time

\* the time from the end of chapter c to the end of the file
time_left_after(c) == files[1].total_duration - files[1].chapters[c].end_time

\* the closing rule at a chapter that is not the last one, for the accumulated
\* duration acc, the length next of the following chapter and the time left
\* rem; the target is tn/td and the tolerance rn/rd
ClosingRule(acc, next, rem, tn, td, rn, rd) ==
    LET in_window == acc * td * rd >= tn * (rd - rn)
        closer == Abs(acc * td - tn) <= Abs((acc + next) * td - tn)
        next_over == (acc + next) * td * rd > tn * (rd + 2 * rn)
        now_over == acc * td * rd > tn * (rd + 2 * rn)
    IN  /\ 2 * rem * td >= tn
        /\ \/ in_window /\ (closer \/ next_over)
           \/ ~in_window /\ now_over

\* C8: at a chapter that is not the last of the file the Segmenter closes the
\* open episode if and only if remaining >= 0.5*T and either acc >= T*(1-r) and
\* (|acc-T| <= |acc_next-T| or acc_next > T*(1+2r)), or acc < T*(1-r) and
\* acc > T*(1+2r); at the last chapter it always closes; an exact tie
\* |acc-T| = |acc_next-T| inside the window closes at the earlier boundary.
C8_ClosingRule ==
    [][(pc = "segmenting" /\ ~seg.done /\ seg' # seg) =>
          LET c == seg.i + 1
              acc == seg.accumulated + chapter_length(c)
              closes == Len(seg'.episodes) = Len(seg.episodes) + 1
              T == seg.target
              r == seg.tolerance
          IN  IF c = Len(files[1].chapters)
              THEN closes /\ seg'.done
              ELSE /\ ~seg'.done
                   /\ Len(seg'.episodes) \in {Len(seg.episodes), Len(seg.episodes) + 1}
                   /\ closes <=> ClosingRule(acc, chapter_length(c + 1), time_left_after(c),
                                             T.n, T.d, r.n, r.d)
                   /\ (/\ 2 * time_left_after(c) * T.d >= T.n
                       /\ acc * T.d * r.d >= T.n * (r.d - r.n)
                       /\ T.n - acc * T.d = (acc + chapter_length(c + 1)) * T.d - T.n)
                      => closes]_vars

\* an episode was closed at a tie: it is as far below the target as it would
\* be above it with the next chapter
C8_Witness ==
    /\ pc = "segmenting"
    /\ \E k \in 1..Len(seg.episodes) :
          LET ep == seg.episodes[k]
              c == last_index(ep)
          IN  /\ c < Len(files[1].chapters)
              /\ ep_duration(ep) * seg.target.d < seg.target.n
              /\ seg.target.n - ep_duration(ep) * seg.target.d
                    = (ep_duration(ep) + chapter_length(c + 1)) * seg.target.d - seg.target.n

\* C9: the Segmenter never closes an episode at a chapter after which less
\* than 0.5*T of the file is left, so the last of two or more episodes lasts
\* 0.5*T or longer; 23 one-minute chapters and a chapter of 0.2 minute, with
\* T = 24 minutes and r = 0.2, give one episode of all 24 chapters.
C9_StubAbsorption ==
    pc = "segmenting" =>
        /\ \A k \in 1..Len(seg.episodes) :
              last_index(seg.episodes[k]) < Len(files[1].chapters)
                 => 2 * time_left_after(last_index(seg.episodes[k])) * seg.target.d >= seg.target.n
        /\ (seg.done /\ Len(seg.episodes) >= 2)
              => 2 * ep_duration(seg.episodes[Len(seg.episodes)]) * seg.target.d >= seg.target.n
        /\ (seg.done /\ files = <<StubFile>>)
              => seg.episodes = <<Episode(1, StubFile.chapters)>>

\* the run on the file of 23 one-minute chapters and a stub has ended
C9_Witness ==
    /\ pc = "segmenting" /\ seg.done
    /\ files = <<StubFile>> /\ Len(files[1].chapters) = 24
    /\ seg.target = ScenarioTarget /\ seg.tolerance = DefaultTolerance
    /\ Len(seg.episodes) = 1 /\ Len(seg.episodes[1].chapters) = 24

\* C10: with the default tolerance, no episode of a partition other than the
\* last episode of the file is shorter than 0.5*T.
C10_NoShortEpisode ==
    (pc = "segmenting" /\ seg.tolerance = DefaultTolerance) =>
        \A k \in 1..Len(seg.episodes) :
            last_index(seg.episodes[k]) < Len(files[1].chapters)
               => 2 * ep_duration(seg.episodes[k]) * seg.target.d >= seg.target.n

\* a partition of three episodes whose first one is shorter than the target
C10_Witness ==
    /\ pc = "segmenting" /\ seg.done /\ seg.tolerance = DefaultTolerance
    /\ Len(seg.episodes) = 3
    /\ ep_duration(seg.episodes[1]) * seg.target.d < seg.target.n

\* the file being segmented has chapters of one length d, the target is m
\* chapters long (m * d = T) and the file holds n * m chapters
EvenCase(m) ==
    LET chs == files[1].chapters
        d == chapter_length(1)
    IN  /\ m >= 1
        /\ \A c \in 1..Len(chs) : chapter_length(c) = d
        /\ m * d * seg.target.d = seg.target.n
        /\ Len(chs) % m = 0

\* C11: a file of n*m chapters of one length d with m*d = T, r = 0.2, is
\* split into exactly n episodes of m consecutive chapters, each of duration
\* T; 48 one-minute chapters with T = 24 minutes give chapters 1-24 and 25-48.
C11_EvenSplit ==
    (pc = "segmenting" /\ seg.done /\ seg.tolerance = DefaultTolerance) =>
        /\ \A m \in 1..Len(files[1].chapters) :
              EvenCase(m) =>
                 /\ Len(seg.episodes) * m = Len(files[1].chapters)
                 /\ \A k \in 1..Len(seg.episodes) :
                       /\ chapter_indices(seg.episodes[k]) = Interval((k - 1) * m + 1, k * m)
                       /\ ep_duration(seg.episodes[k]) * seg.target.d = seg.target.n
        /\ (files = <<EvenFile>> /\ seg.target = ScenarioTarget) =>
              /\ Len(seg.episodes) = 2
              /\ chapter_indices(seg.episodes[1]) = Interval(1, 24)
              /\ chapter_indices(seg.episodes[2]) = Interval(25, 48)

\* the run on the file of 48 one-minute chapters has ended with two episodes
C11_Witness ==
    /\ pc = "segmenting" /\ seg.done
    /\ files = <<EvenFile>> /\ seg.target = ScenarioTarget
    /\ seg.tolerance = DefaultTolerance /\ EvenCase(24)
    /\ Len(seg.episodes) = 2

----------------------------------------------------------------------------
(* Properties of the detection (specification DetSpec) *)

\* the episodes the Segmenter yields over the files for a hypothesis of h
\* minutes, numbered from 1 on, and their durations in the order of the files
HypothesisPlan(h) == duration_plan(files, Rat(h * TicksPerMinute, 1), 1)

HypothesisDurations(h) ==
    LET all == Flatten(HypothesisPlan(h))
    IN  [k \in 1..Len(all) |-> ep_duration(all[k])]

\* the mean episode duration of the hypothesis lies in [18, 35] minutes
MeanInRange(h) ==
    LET ds == HypothesisDurations(h)
    IN  /\ ds # <<>>
        /\ MinAvgMinutes * TicksPerMinute * Len(ds) <= SumSeq(ds)
        /\ SumSeq(ds) <= MaxAvgMinutes * TicksPerMinute * Len(ds)

\* the position, in the order they are tried, of the hypothesis of lowest
\* coefficient of variation among those whose mean is in range, the earliest
\* of them when several share the lowest score
LowestCv ==
    LET score(k) == cv_squared(HypothesisDurations(Hypotheses[k]))
        eligible == {k \in 1..Len(Hypotheses) : MeanInRange(Hypotheses[k])}
    IN  {k \in eligible :
            /\ \A j \in eligible : ~RatLess(score(j), score(k))
            /\ \A j \in eligible : j < k => RatLess(score(k), score(j))}

\* the episode lists of the files, in scan order
current_plan == [f \in 1..Len(files) |-> files[f].episodes]

\* C13 (as claimed): the plan that auto mode applies is the Segmenter's result
\* for the hypothesis of lowest coefficient of variation among all the
\* hypotheses 20, 22, 24, 26, 28, 30 whose mean episode duration lies in
\* [18, 35] minutes, the earliest of them at equal score.
C13_LowestCvPlan ==
    (method = "auto" /\ pc = "display" /\ msg = "analyzed") =>
        \E k \in LowestCv : current_plan = HypothesisPlan(Hypotheses[k])

\* a hypothesis survives: its mean is in range and it yields an episode or
\* more for every file
Survives(h) ==
    /\ MeanInRange(h)
    /\ \A f \in 1..Len(files) : HypothesisPlan(h)[f] # <<>>

\* C14 (as claimed): auto-detection fails exactly when no hypothesis has a
\* mean episode duration in [18, 35] minutes and an episode or more for every
\* file, and a failure leaves every episode list as it was.
C14_FailureIffNoSurvivor ==
    (method = "auto" /\ msg \in {"analyzed", "detection_failed"}) =>
        /\ (msg = "detection_failed") <=>
              (\A k \in 1..Len(Hypotheses) : ~Survives(Hypotheses[k]))
        /\ (msg = "detection_failed") =>
              \A f \in 1..Len(files) : files[f].episodes = <<>>

\* C15 (as claimed): after a failed auto-detection the run goes on, with the
\* known total count or the fixed chapter count only, and reaches the review.
C15_FailureNotFatal ==
    [][pc = "fallback" =>
          /\ method' \in {"total_episodes", "chapter_count"}
          /\ pc' = "display"]_vars

\* the step applies the known total count
KnownCount == pc \in {"prompt", "fallback"} /\ method' = "total_episodes"

\* the episodes of the files before file f, after the step
planned_before(f) == SumSeq([g \in 1..(f - 1) |-> Len(files'[g].episodes)])

\* C16: the known total count, count > 0, runs the Segmenter once for every
\* file with T = (sum of the file durations) / count and numbers running on
\* from file to file, and its plan always goes to the review: a number of
\* episodes other than count raises a warning and nothing else.
C16_KnownCount ==
    [][KnownCount =>
          LET count == cmd'.arg
              T == Rat(SumSeq([f \in 1..Len(files) |-> files[f].total_duration]), count)
          IN  /\ count > 0
              /\ pc' = "display"
              /\ Len(files') = Len(files)
              /\ \A f \in 1..Len(files) :
                    /\ files'[f].episodes =
                          split_by_duration_target(files[f], T, DefaultTolerance,
                                                   1 + planned_before(f))
                    /\ files'[f].chapters = files[f].chapters
                    /\ files'[f].skip = files[f].skip
              /\ (msg' = "count_mismatch") <=> (planned_before(Len(files) + 1) # count)
              /\ msg' \in {"count_mismatch", "analyzed"}]_vars

\* a count of 2 was asked for and three episodes were planned, over two files
C16_Witness ==
    /\ pc = "display" /\ method = "total_episodes" /\ msg = "count_mismatch"
    /\ cmd.arg = 2 /\ Len(files) = 2
    /\ Len(files[1].episodes) + Len(files[2].episodes) = 3

\* the step applies the fixed chapter count
FixedCount == pc \in {"prompt", "fallback"} /\ method' = "chapter_count"

\* C17: the fixed chapter count k >= 1 gives a file of N chapters exactly
\* ceil(N/k) episodes, the j-th one of the chapters (j-1)*k+1 .. min(j*k, N),
\* whatever the chapters last; the numbers run on from file to file.
C17_FixedCount ==
    [][FixedCount =>
          LET k == cmd'.arg
          IN  /\ k >= 1
              /\ pc' = "display"
              /\ \A f \in 1..Len(files) :
                    LET N == Len(files[f].chapters)
                        eps == files'[f].episodes
                    IN  /\ Len(eps) * k >= N
                        /\ (Len(eps) - 1) * k < N
                        /\ \A j \in 1..Len(eps) :
                              /\ chapter_indices(eps[j]) =
                                    Interval((j - 1) * k + 1, Min(j * k, N))
                              /\ eps[j].number = planned_before(f) + j]_vars

\* two chapters to the episode: a file of three chapters got an episode of
\* two and an episode of one, and the second file goes on with number 3
C17_Witness ==
    /\ pc = "display" /\ method = "chapter_count" /\ cmd.arg = 2
    /\ Len(files) = 2 /\ Len(files[1].chapters) = 3
    /\ Len(files[1].episodes) = 2 /\ Len(files[1].episodes[2].chapters) = 1
    /\ files[2].episodes[1].number = 3

\* C25: in every plan of the run (after the detection in any mode, after
\* every edit and every skip toggle) every episode has chapters, and its
\* duration is the end of its last chapter minus the start of its first
\* chapter, is the sum of the durations of its chapters, and is positive.
C25_EpisodeDuration ==
    \A f \in 1..Len(files) :
        \A k \in 1..Len(files[f].episodes) :
            LET ep == files[f].episodes[k]
                chs == ep.chapters
            IN  /\ chs # <<>>
                /\ ep_duration(ep) = chs[Len(chs)].end_time - chs[1].start_time
                /\ ep_duration(ep) = SumSeq([i \in 1..Len(chs) |-> duration(chs[i])])
                /\ ep_duration(ep) > 0

\* after an edit a file is planned with an episode of a chapter of 8 minutes
\* and a chapter of 12 minutes, 20 minutes in all, next to a skipped file
C25_Witness ==
    /\ pc = "display" /\ cmd.op = "e"
    /\ \E f \in 1..Len(files) : files[f].skip
    /\ \E f \in 1..Len(files) :
          \E k \in 1..Len(files[f].episodes) :
              LET ep == files[f].episodes[k]
              IN  /\ Len(ep.chapters) = 2
                  /\ duration(ep.chapters[1]) # duration(ep.chapters[2])
                  /\ ep_duration(ep) = 20 * TicksPerMinute

----------------------------------------------------------------------------
(* Properties of the whole run (specification RunSpec) *)

\* the chapter ranges of the episodes of a file, in order
ranges(mkv) == [i \in 1..Len(mkv.episodes) |-> chapter_indices(mkv.episodes[i])]

\* the number of episodes of the files that are not skipped
shown_count(fs) == Len(shown_numbers(fs))

\* C18: while a file is skipped its episodes keep their chapter ranges under
\* every command, an edit command changes nothing of it whatever numbers its
\* episodes carry, its episodes do not count in the numbers 1..K of the
\* review, and no split, remux or rename is requested for it.
C18_SkippedFile ==
    [][/\ \A f \in 1..Len(files) :
             /\ (files[f].skip /\ files'[f].skip) => ranges(files'[f]) = ranges(files[f])
             /\ (files[f].skip /\ cmd'.op = "e") => files'[f] = files[f]
       /\ pc' = "review" => shown_numbers(files') = Interval(1, shown_count(files'))
       /\ \A k \in 1..Len(requests') : ~files'[requests'[k].file].skip]_vars

\* the first of two files was skipped with its episode still numbered 1; the
\* second file, numbered from 1, was processed
C18_Witness ==
    /\ pc = "done" /\ Len(files) = 2
    /\ files[1].skip /\ ~files[2].skip
    /\ files[1].episodes # <<>>
    /\ files[1].episodes[1].number = files[2].episodes[1].number
    /\ \E k \in 1..Len(requests) : requests[k].op = "rename" /\ requests[k].file = 2

\* C19: no split, remux, rename or chapter renumbering is requested before
\* the review has ended with 'g'; after an abort ('q', end of input,
\* interrupt) nothing more happens in the run, so none is requested at all.
C19_NothingBeforeProceed ==
    /\ requests = <<>>
    /\ [][/\ requests' # requests => (pc = "confirmed" /\ requests = <<>>)
          /\ pc' = "confirmed" => (pc = "review" /\ cmd'.op = "g")
          /\ pc # "cancelled"]_vars

\* a run was processed after an edit and a proceed: a split, renames and
\* chapter renumberings were requested
C19_Witness ==
    /\ pc = "done" /\ cmd.op = "g"
    /\ \E k \in 1..Len(requests) : requests[k].op = "split"
    /\ \E k \in 1..Len(requests) : requests[k].op = "renumber_chapters"
    /\ \E k \in 1..Len(results) : results[k].ok

\* the calls of mkvmerge for the file at position f
merge_requests(f) ==
    LET Merge(r) == r.file = f /\ r.op \in {"split", "remux"}
    IN  SelectSeq(requests, Merge)

\* C20: for a processed file of n episodes over N chapters the split is
\* requested with n-1 boundaries, the i-th one the first chapter of episode
\* i+1, strictly increasing and each in 2..N; for n = 1 no split is requested
\* but a remux.
C20_Boundaries ==
    pc = "done" =>
        \A f \in 1..Len(files) :
            LET n == Len(files[f].episodes)
                N == Len(files[f].chapters)
                calls == merge_requests(f)
            IN  (~files[f].skip /\ n >= 1) =>
                   /\ Len(calls) = 1
                   /\ n = 1 => (calls[1].op = "remux" /\ calls[1].points = <<>>)
                   /\ n > 1 =>
                         /\ calls[1].op = "split"
                         /\ Len(calls[1].points) = n - 1
                         /\ \A i \in 1..(n - 1) :
                               /\ calls[1].points[i] =
                                     chapter_indices(files[f].episodes[i + 1])[1]
                               /\ calls[1].points[i] \in 2..N
                               /\ i > 1 => calls[1].points[i - 1] < calls[1].points[i]

\* a file of four chapters in three episodes was split at chapters 2 and 4,
\* and a file in one episode was remuxed
C20_Witness ==
    /\ pc = "done"
    /\ \/ \E k \in 1..Len(requests) :
             requests[k].op = "split" /\ requests[k].points = <<2, 4>>
       \/ /\ Len(files) = 2
          /\ \E k \in 1..Len(requests) : requests[k].op = "remux" /\ requests[k].file = 1
          /\ \E k \in 1..Len(requests) :
                requests[k].op = "split" /\ requests[k].file = 2


\* the requests with operation op for the file at position f, in order
requests_of(f, op) ==
    LET Wanted(r) == r.file = f /\ r.op = op
    IN  SelectSeq(requests, Wanted)

\* C21: for a file whose materialization succeeded, part i was renamed to the
\* name of the number of the file's i-th episode, for every episode and in
\* order; the outputs carry pairwise distinct numbers, one for each episode,
\* and a chapter renumbering was requested for every output, with the number
\* of chapters of its episode.
C21_PartsToEpisodes ==
    pc = "done" =>
        \A k \in 1..Len(results) :
            results[k].ok =>
                LET f == results[k].file
                    eps == files[f].episodes
                    out == requests_of(f, "rename")
                    ren == requests_of(f, "renumber_chapters")
                IN  /\ Len(out) = Len(eps)
                    /\ Len(ren) = Len(eps)
                    /\ \A i \in 1..Len(eps) :
                          /\ out[i].part = i
                          /\ out[i].number = eps[i].number
                          /\ ren[i].number = out[i].number
                          /\ ren[i].count = Len(eps[i].chapters)
                    /\ \A i, j \in 1..Len(eps) :
                          out[i].number = out[j].number => i = j

\* the second file succeeded with two episodes numbered 3 and 4: its parts 1
\* and 2 were renamed to the names of the episodes 3 and 4
C21_Witness ==
    /\ pc = "done"
    /\ \E k \in 1..Len(results) :
          /\ results[k].ok /\ results[k].file = 2
          /\ Len(files[2].episodes) = 2
          /\ files[2].episodes[1].number = 3
          /\ requests_of(2, "rename")[2].part = 2
          /\ requests_of(2, "rename")[2].number = 4


\* the positions of the files that are not skipped
active_files == {f \in 1..Len(files) : ~files[f].skip}

\* the number of files reported as done (TRUE) or as failed (FALSE)
reported(ok) == Cardinality({k \in 1..Len(results) : results[k].ok = ok})

\* C22: after the proceed every file that is not skipped was attempted once,
\* in scan order, whether or not a file before it failed: the results are
\* those of the files that are not skipped, in increasing position, mkvmerge
\* was called once for each, the requests follow the scan order, and the
\* files done plus the files failed are the files that are not skipped.
C22_EveryFileOnce ==
    pc = "done" =>
        /\ {results[k].file : k \in 1..Len(results)} = active_files
        /\ \A k, l \in 1..Len(results) : k < l => results[k].file < results[l].file
        /\ \A f \in active_files : Len(merge_requests(f)) = 1
        /\ \A k, l \in 1..Len(requests) : k < l => requests[k].file <= requests[l].file
        /\ reported(TRUE) + reported(FALSE) = Cardinality(active_files)
        /\ Len(results) = Cardinality(active_files)

\* the first of two files failed and the second one was processed after it
C22_Witness ==
    /\ pc = "done" /\ Len(results) = 2
    /\ ~results[1].ok /\ results[2].ok
    /\ requests_of(2, "rename") # <<>>


\* the outputs of the file at position f that are on disk after the run: the
\* parts that were renamed (the cleanup removes the temporary parts only)
outputs_left(f) ==
    {r.number : r \in {requests_of(f, "rename")[i] :
                          i \in 1..Len(requests_of(f, "rename"))}}

\* C23: a file for which the split, a chapter renumbering or the look-up of a
\* part failed is reported as failed, and none of its outputs is left on
\* disk after the run.
C23_FailureLeavesNothing ==
    pc = "done" =>
        \A k \in 1..Len(results) :
            /\ results[k].warned => ~results[k].ok
            /\ ~results[k].ok => outputs_left(results[k].file) = {}


----------------------------------------------------------------------------
(* Properties of the scan (specification ScanSpec) *)

\* C24: every file of the list has two chapters or more and a duration; its
\* chapters are numbered 1..N, each one ends where the next one starts, the
\* last one ends at the duration of the file, every chapter ends after its
\* start, and the first one starts at 0, so that the chapters partition
\* [0, duration); a file without two chapters is left out and the scan goes
\* on with the other paths.
C24_ChapterModel ==
    /\ \A f \in 1..Len(files) :
          LET chs == files[f].chapters
              N == Len(chs)
          IN  /\ N >= 2
              /\ files[f].total_duration # 0
              /\ \A i \in 1..N :
                    /\ chs[i].index = i
                    /\ chs[i].end_time > chs[i].start_time
                    /\ i < N => chs[i].end_time = chs[i + 1].start_time
              /\ chs[1].start_time = 0
              /\ chs[N].end_time = files[f].total_duration
    /\ (scan.skipped > 0 /\ scan.paths # <<>>) => pc = "scan"


----------------------------------------------------------------------------
(* The window of the segmenter (specification SegSpec) *)

\* C26: at a chapter that is not the last one of the file the test of the
\* double-length branch (acc > T*(1+2r) when acc >= T*(1-r) is false) never
\* succeeds, so an episode closed there is closed with acc >= T*(1-r) and
\* lasts T*(1-r) or longer.
C26_NoDoubleLengthBranch ==
    [][(pc = "segmenting" /\ ~seg.done /\ seg' # seg) =>
          LET c == seg.i + 1
              acc == seg.accumulated + chapter_length(c)
              T == seg.target
              r == seg.tolerance
          IN  c < Len(files[1].chapters) =>
                 /\ ~(/\ ~min_duration_reached(acc, T, r)
                      /\ exceeds_max_overshoot(acc, T, r))
                 /\ Len(seg'.episodes) = Len(seg.episodes) + 1 =>
                       /\ min_duration_reached(acc, T, r)
                       /\ ep_duration(seg'.episodes[Len(seg'.episodes)]) = acc]_vars

\* an episode longer than T*(1+2r) was closed before the last chapter, and
\* the chapters accumulated after it have not reached T*(1-r)
C26_Witness ==
    /\ pc = "segmenting" /\ ~seg.done
    /\ Len(seg.episodes) >= 1
    /\ exceeds_max_overshoot(ep_duration(seg.episodes[1]), seg.target, seg.tolerance)
    /\ seg.accumulated > 0
    /\ ~min_duration_reached(seg.accumulated, seg.target, seg.tolerance)


\* C27: an episode closed before the last chapter of the file that lasts
\* longer than T*(1+2r) lasts less than T*(1-r) without its last chapter: an
\* episode that had reached T*(1-r) before its last chapter does not exceed
\* T*(1+2r).
C27_HardCeiling ==
    pc = "segmenting" =>
        \A k \in 1..Len(seg.episodes) :
            LET ep == seg.episodes[k]
                c == last_index(ep)
                before == ep_duration(ep) - chapter_length(c)
            IN  (/\ c < Len(files[1].chapters)
                 /\ exceeds_max_overshoot(ep_duration(ep), seg.target, seg.tolerance))
                => ~min_duration_reached(before, seg.target, seg.tolerance)

\* an episode of several chapters was closed before the last chapter above
\* T*(1+2r): its last chapter took it from below T*(1-r) over the window
C27_Witness ==
    /\ pc = "segmenting"
    /\ \E k \in 1..Len(seg.episodes) :
          LET ep == seg.episodes[k]
          IN  /\ last_index(ep) < Len(files[1].chapters)
              /\ Len(ep.chapters) >= 2
              /\ seg.tolerance.n > 0
              /\ exceeds_max_overshoot(ep_duration(ep), seg.target, seg.tolerance)


----------------------------------------------------------------------------
(* The end of the review (specification RunSpec) *)

\* C28: 'g' is refused while the files that are not skipped hold no episode:
\* the review goes on with the files, the targets and the requests
\* unchanged; the review is confirmed, and the files are processed, only
\* with one episode or more to write.
C28_NoEmptyProceed ==
    [][/\ (pc = "review" /\ cmd'.op = "g" /\ shown_count(files) = 0) =>
             /\ pc' = "display" /\ msg' = "no_episodes"
             /\ UNCHANGED <<files, method, plan_target, target_duration,
                            requests, results>>
       /\ pc' = "confirmed" => shown_count(files') >= 1
       /\ requests' # requests =>
             /\ shown_count(files) >= 1
             /\ \E k \in 1..Len(requests') : requests'[k].op \in {"split", "remux"}]_vars

\* 'g' was refused with every file skipped
C28_Witness ==
    /\ pc = "display" /\ cmd.op = "g" /\ msg = "no_episodes"
    /\ Len(files) = 2
    /\ \A f \in 1..Len(files) : files[f].skip /\ files[f].episodes # <<>>


\* the files after 's n' once more: the toggle, then renumber_all_episodes
toggled_again(fs, n) == renumber_all_episodes(toggle_skip(fs, n))

\* the numbers of the episodes of a file, in order
numbers(mkv) == [i \in 1..Len(mkv.episodes) |-> mkv.episodes[i].number]

\* C29 as stated: after 's n' on a file of the list, 's n' once more gives
\* back the files as they were before the first 's n': the skip flags, the
\* chapter ranges of the episodes of every file and the number of every
\* episode.
C29_SkipTwiceExact ==
    [][(pc = "review" /\ cmd'.op = "s" /\ cmd'.arg \in 1..Len(files)) =>
          toggled_again(files', cmd'.arg) = files]_vars

\* C29, amended: after 's n' on a file of the list, 's n' once more gives back
\* the skip flags, the chapters and the chapter ranges of the episodes of
\* every file, and the number of every episode but those of file n when it
\* was skipped before the first 's n' (a skipped file keeps the numbers it
\* had when it was skipped, file n then keeps those of its last inclusion).
C29_SkipTwice ==
    [][(pc = "review" /\ cmd'.op = "s" /\ cmd'.arg \in 1..Len(files)) =>
          LET n == cmd'.arg
              back == toggled_again(files', n)
          IN  /\ Len(back) = Len(files)
              /\ files'[n].skip = ~files[n].skip
              /\ \A f \in 1..Len(files) :
                    /\ back[f].skip = files[f].skip
                    /\ back[f].chapters = files[f].chapters
                    /\ back[f].total_duration = files[f].total_duration
                    /\ ranges(back[f]) = ranges(files[f])
                    /\ (f # n \/ ~files[f].skip) => numbers(back[f]) = numbers(files[f])]_vars

\* the second of two files was included again while the first one is
\* skipped: its episodes are numbered from 1
C29_Witness ==
    /\ pc = "display" /\ cmd.op = "s" /\ cmd.arg = 2 /\ msg = "included"
    /\ Len(files) = 2
    /\ files[1].skip /\ ~files[2].skip
    /\ Len(files[1].episodes) = 2
    /\ numbers(files[2]) = <<1, 2>>


\* the renames requested in the run, in order
renames == LET Rename(r) == r.op = "rename" IN SelectSeq(requests, Rename)

\* C30: when the review is confirmed the episodes of the files that are not
\* skipped carry pairwise distinct numbers, and no two renames of the run, of
\* one file or of two files, are to the name of the same episode number.
C30_DistinctOutputs ==
    /\ pc \in {"confirmed", "done"} =>
          \A k, l \in 1..shown_count(files) :
              shown_numbers(files)[k] = shown_numbers(files)[l] => k = l
    /\ pc = "done" =>
          \A k, l \in 1..Len(renames) :
              renames[k].number = renames[l].number => k = l

\* two files of two episodes each were processed: four parts were renamed,
\* to the names of the episodes 1 to 4
C30_Witness ==
    /\ pc = "done"
    /\ Len(results) = 2 /\ results[1].ok /\ results[2].ok
    /\ Len(renames) = 4
    /\ {renames[k].number : k \in 1..Len(renames)} = 1..4

====
